---- MODULE Spec2Model ----
(***************************************************************************)
(* Model of the flashcard review scheduler (flashcard.py): the Flashcard   *)
(* object, its review history list, the dictionaries produced by to_dict   *)
(* and consumed by from_dict, and the wall clock read by datetime.now();   *)
(* and of the FlashcardManager (flashcard_manager.py) that holds the       *)
(* cards, writes them to its storage file, lists and counts them.          *)
(* Time is counted in whole days.                                          *)
(***************************************************************************)
EXTENDS Integers, Sequences, FiniteSets, TLC

VARIABLES
    now,      \* the wall clock, datetime.now()
    cards,    \* the Flashcard objects in memory, in order of construction
    lists,    \* the Python list objects holding review histories
    data,     \* the dictionaries in memory (to_dict results, loaded records)
    last,     \* the last operation performed
    run,      \* the current uninterrupted run of successful reviews of a new card
    file,     \* the storage file of the FlashcardManager
    result    \* the last call of the FlashcardManager and what it returned

vars == <<now, cards, lists, data, last, run, file, result>>

----------------------------------------------------------------------------
(* Bounds *)

MaxTime == 2        \* the clock runs from day 0 to day MaxTime
MaxHistory == 7     \* outcomes recorded in the history of a card on its own
MaxCards == 2       \* Flashcard objects constructed when lists can be shared
MaxReviews == 2     \* outcomes recorded over all history lists when shared
MaxSharedTime == 1  \* the last day of the clock when lists can be shared
MaxDicts == 1       \* dictionaries held in memory
MaxLegacyCount == 2 \* review_count of a record written before histories existed
MaxLongHistory == 9 \* outcomes recorded in the history of a card that is only reviewed
MaxCycleTime == 29  \* the last day of the clock over the mandatory cycles
MaxCycleReviews == 3 \* outcomes recorded over the mandatory cycles
MaxPairHistory == 6 \* outcomes in the history of each of two cards compared
MaxStoreCards == 3  \* Flashcard objects a manager constructs
MaxStoreReviews == 1 \* outcomes recorded through a manager
MaxStatsCards == 2  \* cards of a manager whose statistics are taken
MaxStatsHistory == 3 \* outcomes in the history of each of these cards at the start
MaxCategoryCards == 3 \* Flashcard objects a manager constructs before categories are listed
MaxStorageCards == 2 \* Flashcard objects of a manager that is constructed again
MaxStorageReviews == 1 \* reviews recorded by a manager that is constructed again
MaxQueryCards == 2  \* Flashcard objects a manager constructs before they are listed
MaxQueryReviews == 2 \* outcomes recorded through a manager before cards are listed
MaxQueryTime == 1   \* the last day of the clock of a manager whose cards are listed

----------------------------------------------------------------------------
(* Values *)

NoTime == -1        \* None in a datetime attribute
None == "None"      \* None in a dictionary entry or a text attribute

EASY == 1
MEDIUM == 2
HARD == 3
DifficultyLevel == {EASY, MEDIUM, HARD}

MandatoryDays == 14

\* DifficultyLevel.get_review_interval
get_review_interval(d) ==
    CASE d = EASY -> 7
      [] d = MEDIUM -> 3
      [] d = HARD -> 1

\* DifficultyLevel.name and DifficultyLevel[name]
DifficultyName(d) ==
    CASE d = EASY -> "EASY"
      [] d = MEDIUM -> "MEDIUM"
      [] d = HARD -> "HARD"

DifficultyByName(n) == CHOOSE d \in DifficultyLevel : DifficultyName(d) = n

Max(a, b) == IF a >= b THEN a ELSE b
Min(a, b) == IF a <= b THEN a ELSE b

\* datetime.isoformat and datetime.fromisoformat
isoformat(t) == ToString(t)

fromisoformat(s) ==
    CHOOSE t \in 0..(Max(MaxTime, MaxCycleTime) + MandatoryDays + 1) : ToString(t) = s

RECURSIVE Sum(_)
\* sum(list of bool): the number of True entries
Sum(h) == IF h = <<>> THEN 0 ELSE (IF Head(h) THEN 1 ELSE 0) + Sum(Tail(h))

\* review_history[-5:]
LastFive(h) == IF Len(h) <= 5 THEN h ELSE SubSeq(h, Len(h) - 4, Len(h))

----------------------------------------------------------------------------
(* Flashcard *)

\* _auto_adjust_difficulty with the second branch an `if` after the first
\* instead of nested under it: a HARD card falls through to EASY
TwoStepAdjust(difficulty, history) ==
    IF Len(history) < 5 THEN difficulty
    ELSE LET recent_reviews == LastFive(history)
             total == Sum(recent_reviews)
             n == Len(recent_reviews)
             eased == IF 10 * total >= 8 * n /\ difficulty = HARD THEN MEDIUM ELSE difficulty
         IN  IF 10 * total >= 8 * n /\ eased # EASY THEN EASY
             ELSE IF 10 * total <= 4 * n /\ difficulty # HARD
             THEN (IF difficulty = EASY THEN MEDIUM ELSE HARD)
             ELSE difficulty

\* _auto_adjust_difficulty starting at 4 reviews instead of 5
EarlyAdjust(difficulty, history) ==
    IF Len(history) < 4 THEN difficulty
    ELSE LET recent_reviews == LastFive(history)
             total == Sum(recent_reviews)
             n == Len(recent_reviews)
         IN  IF 10 * total >= 8 * n /\ difficulty # EASY
             THEN (IF difficulty = HARD THEN MEDIUM ELSE EASY)
             ELSE IF 10 * total <= 4 * n /\ difficulty # HARD
             THEN (IF difficulty = EASY THEN MEDIUM ELSE HARD)
             ELSE difficulty

\* _auto_adjust_difficulty starting after 5 reviews instead of at 5
LateAdjust(difficulty, history) ==
    IF Len(history) <= 5 THEN difficulty
    ELSE LET recent_reviews == LastFive(history)
             total == Sum(recent_reviews)
             n == Len(recent_reviews)
         IN  IF 10 * total >= 8 * n /\ difficulty # EASY
             THEN (IF difficulty = HARD THEN MEDIUM ELSE EASY)
             ELSE IF 10 * total <= 4 * n /\ difficulty # HARD
             THEN (IF difficulty = EASY THEN MEDIUM ELSE HARD)
             ELSE difficulty

\* _auto_adjust_difficulty with strict thresholds (> 0.8, < 0.4)
StrictAdjust(difficulty, history) ==
    IF Len(history) < 5 THEN difficulty
    ELSE LET recent_reviews == LastFive(history)
             total == Sum(recent_reviews)
             n == Len(recent_reviews)
         IN  IF 10 * total > 8 * n /\ difficulty # EASY
             THEN (IF difficulty = HARD THEN MEDIUM ELSE EASY)
             ELSE IF 10 * total < 4 * n /\ difficulty # HARD
             THEN (IF difficulty = EASY THEN MEDIUM ELSE HARD)
             ELSE difficulty


\* _auto_adjust_difficulty taking the rate over the whole history
CumulativeAdjust(difficulty, history) ==
    IF Len(history) < 5 THEN difficulty
    ELSE LET total == Sum(history)
             n == Len(history)
         IN  IF 10 * total >= 8 * n /\ difficulty # EASY
             THEN (IF difficulty = HARD THEN MEDIUM ELSE EASY)
             ELSE IF 10 * total <= 4 * n /\ difficulty # HARD
             THEN (IF difficulty = EASY THEN MEDIUM ELSE HARD)
             ELSE difficulty

\* Flashcard._auto_adjust_difficulty: the difficulty after the adjustment
auto_adjust_difficulty(difficulty, history) ==
    IF Len(history) < 5 THEN difficulty
    ELSE LET recent_reviews == LastFive(history)
             total == Sum(recent_reviews)
             n == Len(recent_reviews)
         IN  \* success_rate >= 0.8, with success_rate = total / n
             IF 10 * total >= 8 * n /\ difficulty # EASY
             THEN (IF difficulty = HARD THEN MEDIUM ELSE EASY)
             \* success_rate <= 0.4
             ELSE IF 10 * total <= 4 * n /\ difficulty # HARD
             THEN (IF difficulty = EASY THEN MEDIUM ELSE HARD)
             ELSE difficulty

\* _calculate_review_interval giving the bonus from the first success on
BonusFromFirst(difficulty, success_streak, success) ==
    LET base_interval == get_review_interval(difficulty)
    IN  IF ~success THEN Max(1, base_interval \div 2)
        ELSE IF success_streak >= 1
        THEN Min(14, base_interval + Min(2, success_streak))
        ELSE base_interval

\* _calculate_review_interval without the minimum of one day
UnflooredInterval(difficulty, success_streak, success) ==
    LET base_interval == get_review_interval(difficulty)
    IN  IF ~success THEN base_interval \div 2
        ELSE IF success_streak >= 3
        THEN Min(14, base_interval + Min(2, success_streak \div 3))
        ELSE base_interval

\* _calculate_review_interval with the test of success inverted
HalvedOnSuccess(difficulty, success_streak, success) ==
    LET base_interval == get_review_interval(difficulty)
    IN  IF success THEN Max(1, base_interval \div 2)
        ELSE IF success_streak >= 3
        THEN Min(14, base_interval + Min(2, success_streak \div 3))
        ELSE base_interval


\* _calculate_review_interval without the halving on failure
UnhalvedOnFailure(difficulty, success_streak, success) ==
    LET base_interval == get_review_interval(difficulty)
    IN  IF success /\ success_streak >= 3
        THEN Min(14, base_interval + Min(2, success_streak \div 3))
        ELSE base_interval



\* _calculate_review_interval with a bonus of one day for each success of the
\* streak, under the cap of 14 days alone
BonusPerSuccess(difficulty, success_streak, success) ==
    LET base_interval == get_review_interval(difficulty)
    IN  IF ~success THEN Max(1, base_interval \div 2)
        ELSE IF success_streak >= 3
        THEN Min(14, base_interval + success_streak)
        ELSE base_interval

\* _calculate_review_interval without the cap of 2 days on the bonus
UncappedBonus(difficulty, success_streak, success) ==
    LET base_interval == get_review_interval(difficulty)
    IN  IF ~success THEN Max(1, base_interval \div 2)
        ELSE IF success_streak >= 3
        THEN Min(14, base_interval + success_streak \div 3)
        ELSE base_interval

\* Flashcard._calculate_review_interval
calculate_review_interval(difficulty, success_streak, success) ==
    LET base_interval == get_review_interval(difficulty)
    IN  IF ~success THEN Max(1, base_interval \div 2)
        ELSE IF success_streak >= 3
        THEN LET bonus == Min(2, success_streak \div 3)
             IN  Min(14, base_interval + bonus)
        ELSE base_interval


\* __init__ scheduling the first review one base interval after construction
ScheduledNewCard(recto, verso, difficulty, card_id, category, user_id, list, t1, t2) ==
    [card_id |-> card_id, recto |-> recto, verso |-> verso,
     difficulty |-> difficulty, category |-> category, user_id |-> user_id,
     created_at |-> t1, last_reviewed |-> NoTime,
     next_review |-> t2 + get_review_interval(difficulty),
     review_count |-> 0, review_history |-> list,
     last_mandatory_review |-> NoTime, success_streak |-> 0]

\* Flashcard.__init__, the clock read as t1 for created_at and t2 for next_review
NewCard(recto, verso, difficulty, card_id, category, user_id, list, t1, t2) ==
    [card_id |-> card_id, recto |-> recto, verso |-> verso,
     difficulty |-> difficulty, category |-> category, user_id |-> user_id,
     created_at |-> t1, last_reviewed |-> NoTime, next_review |-> t2,
     review_count |-> 0, review_history |-> list,
     last_mandatory_review |-> NoTime, success_streak |-> 0]

\* mark_reviewed computing the interval before the difficulty is adjusted
StaleTierReview(c, h, success, t) ==
    LET history == Append(h, success)
        mandatory ==
            IF c.last_mandatory_review = NoTime
            THEN (IF t >= c.created_at + MandatoryDays THEN t ELSE NoTime)
            ELSE (IF t >= c.last_mandatory_review + MandatoryDays
                  THEN t ELSE c.last_mandatory_review)
        streak == IF success THEN c.success_streak + 1 ELSE 0
        interval_days == calculate_review_interval(c.difficulty, streak, success)
    IN  [c EXCEPT !.last_reviewed = t,
                  !.review_count = c.review_count + 1,
                  !.last_mandatory_review = mandatory,
                  !.success_streak = streak,
                  !.difficulty = auto_adjust_difficulty(c.difficulty, history),
                  !.next_review = t + interval_days]


\* mark_reviewed leaving the streak as it was on a failure
KeepStreakReview(c, h, success, t) ==
    LET history == Append(h, success)
        mandatory ==
            IF c.last_mandatory_review = NoTime
            THEN (IF t >= c.created_at + MandatoryDays THEN t ELSE NoTime)
            ELSE (IF t >= c.last_mandatory_review + MandatoryDays
                  THEN t ELSE c.last_mandatory_review)
        streak == IF success THEN c.success_streak + 1 ELSE c.success_streak
        difficulty == auto_adjust_difficulty(c.difficulty, history)
        interval_days == calculate_review_interval(difficulty, streak, success)
    IN  [c EXCEPT !.last_reviewed = t,
                  !.review_count = c.review_count + 1,
                  !.last_mandatory_review = mandatory,
                  !.success_streak = streak,
                  !.difficulty = difficulty,
                  !.next_review = t + interval_days]


\* mark_reviewed stamping every review as the mandatory one
StampEveryReview(c, h, success, t) ==
    LET history == Append(h, success)
        streak == IF success THEN c.success_streak + 1 ELSE 0
        difficulty == auto_adjust_difficulty(c.difficulty, history)
        interval_days == calculate_review_interval(difficulty, streak, success)
    IN  [c EXCEPT !.last_reviewed = t,
                  !.review_count = c.review_count + 1,
                  !.last_mandatory_review = t,
                  !.success_streak = streak,
                  !.difficulty = difficulty,
                  !.next_review = t + interval_days]



\* mark_reviewed taking a review for the mandatory one a week after the last
\* one
WeeklyStamp(c, h, success, t) ==
    LET history == Append(h, success)
        mandatory ==
            IF c.last_mandatory_review = NoTime
            THEN (IF t >= c.created_at + MandatoryDays THEN t ELSE NoTime)
            ELSE (IF t >= c.last_mandatory_review + 7
                  THEN t ELSE c.last_mandatory_review)
        streak == IF success THEN c.success_streak + 1 ELSE 0
        difficulty == auto_adjust_difficulty(c.difficulty, history)
        interval_days == calculate_review_interval(difficulty, streak, success)
    IN  [c EXCEPT !.last_reviewed = t,
                  !.review_count = c.review_count + 1,
                  !.last_mandatory_review = mandatory,
                  !.success_streak = streak,
                  !.difficulty = difficulty,
                  !.next_review = t + interval_days]

\* mark_reviewed leaving last_mandatory_review as it was
UnstampedReview(c, h, success, t) ==
    LET history == Append(h, success)
        streak == IF success THEN c.success_streak + 1 ELSE 0
        difficulty == auto_adjust_difficulty(c.difficulty, history)
        interval_days == calculate_review_interval(difficulty, streak, success)
    IN  [c EXCEPT !.last_reviewed = t,
                  !.review_count = c.review_count + 1,
                  !.success_streak = streak,
                  !.difficulty = difficulty,
                  !.next_review = t + interval_days]

\* Flashcard.mark_reviewed on card c whose history list holds h, at time t:
\* the card afterwards (the list afterwards is Append(h, success))
mark_reviewed(c, h, success, t) ==
    LET history == Append(h, success)
        mandatory ==
            IF c.last_mandatory_review = NoTime
            THEN (IF t >= c.created_at + MandatoryDays THEN t ELSE NoTime)
            ELSE (IF t >= c.last_mandatory_review + MandatoryDays
                  THEN t ELSE c.last_mandatory_review)
        streak == IF success THEN c.success_streak + 1 ELSE 0
        difficulty == auto_adjust_difficulty(c.difficulty, history)
        interval_days == calculate_review_interval(difficulty, streak, success)
    IN  [c EXCEPT !.last_reviewed = t,
                  !.review_count = c.review_count + 1,
                  !.last_mandatory_review = mandatory,
                  !.success_streak = streak,
                  !.difficulty = difficulty,
                  !.next_review = t + interval_days]


\* update_difficulty passing the new difficulty through the adaptive interval
AdaptiveUpdate(c, new_difficulty) ==
    IF c.last_reviewed # NoTime
    THEN [c EXCEPT !.difficulty = new_difficulty,
                   !.next_review = c.last_reviewed +
                       calculate_review_interval(new_difficulty, c.success_streak, TRUE)]
    ELSE [c EXCEPT !.difficulty = new_difficulty]



\* is_due_for_review without the mandatory two-week test
ScheduleOnlyDue(c, t1, t2) == t1 >= c.next_review

\* is_due_for_review with the operands of every comparison swapped
ReversedDue(c, t1, t2) ==
    IF c.next_review >= t1 THEN TRUE
    ELSE IF c.last_mandatory_review = NoTime
    THEN c.created_at + MandatoryDays >= t2
    ELSE c.last_mandatory_review + MandatoryDays >= t2

\* Flashcard.is_due_for_review, the clock read as t1 at the first test and as
\* t2 at the second
is_due_for_review(c, t1, t2) ==
    IF t1 >= c.next_review THEN TRUE
    ELSE IF c.last_mandatory_review = NoTime
    THEN t2 >= c.created_at + MandatoryDays
    ELSE t2 >= c.last_mandatory_review + MandatoryDays


\* update_difficulty starting the streak again
FreshStreakUpdate(c, new_difficulty) ==
    IF c.last_reviewed # NoTime
    THEN [c EXCEPT !.difficulty = new_difficulty,
                   !.success_streak = 0,
                   !.next_review = c.last_reviewed + get_review_interval(new_difficulty)]
    ELSE [c EXCEPT !.difficulty = new_difficulty, !.success_streak = 0]

\* Flashcard.update_difficulty
update_difficulty(c, new_difficulty) ==
    IF c.last_reviewed # NoTime
    THEN [c EXCEPT !.difficulty = new_difficulty,
                   !.next_review = c.last_reviewed + get_review_interval(new_difficulty)]
    ELSE [c EXCEPT !.difficulty = new_difficulty]

\* Flashcard.to_dict: review_history is the card's own list object
to_dict(c) ==
    [card_id |-> c.card_id, recto |-> c.recto, verso |-> c.verso,
     difficulty |-> DifficultyName(c.difficulty),
     category |-> c.category, user_id |-> c.user_id,
     created_at |-> isoformat(c.created_at),
     last_reviewed |-> IF c.last_reviewed # NoTime THEN isoformat(c.last_reviewed) ELSE None,
     next_review |-> isoformat(c.next_review),
     review_count |-> c.review_count,
     review_history |-> c.review_history,
     last_mandatory_review |->
         IF c.last_mandatory_review # NoTime THEN isoformat(c.last_mandatory_review) ELSE None,
     success_streak |-> c.success_streak]

\* dict.get(key, default)
Get(d, key, default) == IF key \in DOMAIN d THEN d[key] ELSE default


\* from_dict reading last_mandatory_review from the last_reviewed entry
MandatoryFromLastReviewed(d, fresh) ==
    [card_id |-> d.card_id, recto |-> d.recto, verso |-> d.verso,
     difficulty |-> DifficultyByName(d.difficulty),
     category |-> Get(d, "category", None), user_id |-> Get(d, "user_id", None),
     created_at |-> fromisoformat(d.created_at),
     last_reviewed |-> IF d.last_reviewed # None THEN fromisoformat(d.last_reviewed) ELSE NoTime,
     next_review |-> fromisoformat(d.next_review),
     review_count |-> d.review_count,
     review_history |-> Get(d, "review_history", fresh),
     last_mandatory_review |->
         IF d.last_reviewed # None THEN fromisoformat(d.last_reviewed) ELSE NoTime,
     success_streak |-> Get(d, "success_streak", 0)]


\* from_dict taking the streak of a record without one from its review_count
StreakFromCount(d, fresh) ==
    [card_id |-> d.card_id, recto |-> d.recto, verso |-> d.verso,
     difficulty |-> DifficultyByName(d.difficulty),
     category |-> Get(d, "category", None), user_id |-> Get(d, "user_id", None),
     created_at |-> fromisoformat(d.created_at),
     last_reviewed |-> IF d.last_reviewed # None THEN fromisoformat(d.last_reviewed) ELSE NoTime,
     next_review |-> fromisoformat(d.next_review),
     review_count |-> d.review_count,
     review_history |-> Get(d, "review_history", fresh),
     last_mandatory_review |->
         IF Get(d, "last_mandatory_review", None) # None
         THEN fromisoformat(d.last_mandatory_review) ELSE NoTime,
     success_streak |-> Get(d, "success_streak", d.review_count)]

\* Flashcard.from_dict; fresh is the list object made by the default []
from_dict(d, fresh) ==
    [card_id |-> d.card_id, recto |-> d.recto, verso |-> d.verso,
     difficulty |-> DifficultyByName(d.difficulty),
     category |-> Get(d, "category", None), user_id |-> Get(d, "user_id", None),
     created_at |-> fromisoformat(d.created_at),
     last_reviewed |-> IF d.last_reviewed # None THEN fromisoformat(d.last_reviewed) ELSE NoTime,
     next_review |-> fromisoformat(d.next_review),
     review_count |-> d.review_count,
     review_history |-> Get(d, "review_history", fresh),
     last_mandatory_review |->
         IF Get(d, "last_mandatory_review", None) # None
         THEN fromisoformat(d.last_mandatory_review) ELSE NoTime,
     success_streak |-> Get(d, "success_streak", 0)]

\* A record written before review_history, last_mandatory_review and
\* success_streak existed (test_backward_compatibility), by a card created at
\* t0 and last reviewed at lr (NoTime: never) n times
OldFormatRecord(difficulty, t0, lr, n) ==
    [card_id |-> 0, recto |-> "Old Question", verso |-> "Old Answer",
     difficulty |-> DifficultyName(difficulty), category |-> "Test",
     created_at |-> isoformat(t0),
     last_reviewed |-> IF lr # NoTime THEN isoformat(lr) ELSE None,
     next_review |-> IF lr # NoTime THEN isoformat(lr + get_review_interval(difficulty))
                     ELSE isoformat(t0),
     review_count |-> n]

----------------------------------------------------------------------------
(* Operations *)

Recorded == LET RECURSIVE Total(_)
                Total(i) == IF i = 0 THEN 0 ELSE Len(lists[i]) + Total(i - 1)
            IN  Total(Len(lists))

NoRun == [card |-> 0, n |-> 0]

\* an operation on a card: its arguments, and the difficulty the card had before
Op(op, card, success, difficulty, before) ==
    [op |-> op, card |-> card, success |-> success, difficulty |-> difficulty,
     before |-> before]

\* the storage file before anything is written: it does not exist. error is
\* the exception that opening and parsing the file raises, writable whether
\* opening it for writing succeeds
NoFile == [exists |-> FALSE, records |-> <<>>, error |-> None, writable |-> TRUE]

\* the statistics of no cards
NoStatistics ==
    [total_cards |-> 0, due_for_review |-> 0, easy_cards |-> 0, medium_cards |-> 0,
     hard_cards |-> 0, total_reviews |-> 0, overall_success_rate |-> 0,
     best_streak |-> 0, cards_with_streaks |-> 0]

\* a call of the manager: the card_id, user_id and shuffle passed (0, None and
\* FALSE where not passed), the truth of the value returned, the positions in
\* flashcards of the cards returned and the statistics returned
Call(card_id, user_id, shuffle, value, returned, statistics) ==
    [card_id |-> card_id, user_id |-> user_id, shuffle |-> shuffle,
     value |-> value, returned |-> returned, statistics |-> statistics]

NoCall == Call(0, None, FALSE, FALSE, <<>>, NoStatistics)

Init ==
    /\ now = 0
    /\ cards = <<>>
    /\ lists = <<>>
    /\ data = <<>>
    /\ last = Op("init", 0, FALSE, MEDIUM, MEDIUM)
    /\ run = NoRun
    /\ file = NoFile
    /\ result = NoCall

\* time passes
Tick ==
    /\ now' = now + 1
    /\ last' = Op("tick", 0, FALSE, MEDIUM, MEDIUM)
    /\ UNCHANGED <<cards, lists, data, run, file, result>>

\* Flashcard(recto, verso, difficulty): the constructor reads the clock twice
Create(difficulty, t2) ==
    /\ LET id == Len(cards) + 1
           c == NewCard("Q", "A", difficulty, id, None, None, Len(lists) + 1, now, t2)
       IN  /\ cards' = Append(cards, c)
           /\ lists' = Append(lists, <<>>)
           /\ last' = Op("create", id, FALSE, difficulty, difficulty)
           /\ run' = IF difficulty = HARD THEN [card |-> id, n |-> 0] ELSE NoRun
    /\ now' = t2
    /\ UNCHANGED <<data, file, result>>

\* card.mark_reviewed(success)
MarkReviewed(i, success) ==
    /\ LET c == cards[i]
           l == c.review_history
       IN  /\ cards' = [cards EXCEPT ![i] = mark_reviewed(c, lists[l], success, now)]
           /\ lists' = [lists EXCEPT ![l] = Append(@, success)]
           /\ last' = Op("review", i, success, c.difficulty, c.difficulty)
    /\ run' = IF run.card = i /\ success THEN [run EXCEPT !.n = @ + 1] ELSE NoRun
    /\ UNCHANGED <<now, data, file, result>>

\* card.update_difficulty(new_difficulty)
UpdateDifficulty(i, new_difficulty) ==
    /\ cards' = [cards EXCEPT ![i] = update_difficulty(cards[i], new_difficulty)]
    /\ last' = Op("update", i, FALSE, new_difficulty, cards[i].difficulty)
    /\ run' = NoRun
    /\ UNCHANGED <<now, lists, data, file, result>>

\* data = card.to_dict()
ToDict(i) ==
    /\ data' = Append(data, to_dict(cards[i]))
    /\ last' = Op("to_dict", i, FALSE, cards[i].difficulty, cards[i].difficulty)
    /\ run' = NoRun
    /\ UNCHANGED <<now, cards, lists, file, result>>

\* a record in the old format is read from storage
ReadOldRecord(difficulty, t0, lr, n) ==
    /\ data' = Append(data, OldFormatRecord(difficulty, t0, lr, n))
    /\ last' = Op("read", 0, FALSE, difficulty, difficulty)
    /\ run' = NoRun
    /\ UNCHANGED <<now, cards, lists, file, result>>

\* Flashcard.from_dict(data)
FromDict(k) ==
    /\ LET d == data[k]
           c == from_dict(d, Len(lists) + 1)
       IN  /\ cards' = Append(cards, c)
           /\ lists' = IF "review_history" \in DOMAIN d THEN lists ELSE Append(lists, <<>>)
           /\ last' = Op("from_dict", Len(cards) + 1, FALSE, c.difficulty, c.difficulty)
    /\ run' = NoRun
    /\ UNCHANGED <<now, data, file, result>>

\* the old-format records a store written by an earlier version can hold
ReadSomeOldRecord ==
    \E d \in DifficultyLevel, t0 \in 0..now, lr \in {NoTime} \cup 0..now,
       n \in 0..MaxLegacyCount :
        /\ lr # NoTime => lr >= t0 /\ n >= 1
        /\ lr = NoTime => n = 0
        /\ ReadOldRecord(d, t0, lr, n)

\* One card on its own: constructed or loaded from an old record, then
\* reviewed and updated.
Next ==
    \/ /\ now < MaxTime
       /\ Tick
    \/ /\ cards = <<>>
       /\ \E d \in DifficultyLevel, t2 \in now..Min(now + 1, MaxTime) : Create(d, t2)
    \/ /\ Recorded < MaxHistory
       /\ \E i \in DOMAIN cards, s \in BOOLEAN : MarkReviewed(i, s)
    \/ \E i \in DOMAIN cards, d \in DifficultyLevel : UpdateDifficulty(i, d)
    \/ /\ cards = <<>> /\ data = <<>>
       /\ ReadSomeOldRecord
    \/ /\ cards = <<>>
       /\ \E k \in DOMAIN data : FromDict(k)

Spec == Init /\ [][Next]_vars

\* Several cards and the dictionaries passed between them: a card made by
\* from_dict from the to_dict of another card holds the same list object.
NextShared ==
    \/ /\ now < MaxSharedTime
       /\ Tick
    \/ /\ Len(cards) < MaxCards
       /\ \E d \in DifficultyLevel, t2 \in now..Min(now + 1, MaxSharedTime) : Create(d, t2)
    \/ /\ Recorded < MaxReviews
       /\ \E i \in DOMAIN cards, s \in BOOLEAN : MarkReviewed(i, s)
    \/ \E i \in DOMAIN cards, d \in DifficultyLevel : UpdateDifficulty(i, d)
    \/ /\ Len(data) < MaxDicts
       /\ \E i \in DOMAIN cards : ToDict(i)
    \/ /\ Len(data) < MaxDicts
       /\ ReadSomeOldRecord
    \/ /\ Len(cards) < MaxCards
       /\ \E k \in DOMAIN data : FromDict(k)

SpecShared == Init /\ [][NextShared]_vars


\* One card that is constructed and then only reviewed, over a long history.
NextLong ==
    \/ /\ now < MaxTime
       /\ Tick
    \/ /\ cards = <<>>
       /\ \E d \in DifficultyLevel, t2 \in now..Min(now + 1, MaxTime) : Create(d, t2)
    \/ /\ Recorded < MaxLongHistory
       /\ \E i \in DOMAIN cards, s \in BOOLEAN : MarkReviewed(i, s)

SpecLong == Init /\ [][NextLong]_vars


\* One card that is constructed, reviewed and updated over several weeks.
NextCycle ==
    \/ /\ now < MaxCycleTime
       /\ Tick
    \/ /\ cards = <<>>
       /\ \E d \in DifficultyLevel, t2 \in now..Min(now + 1, MaxCycleTime) : Create(d, t2)
    \/ /\ Recorded < MaxCycleReviews
       /\ \E i \in DOMAIN cards, s \in BOOLEAN : MarkReviewed(i, s)
    \/ \E i \in DOMAIN cards, d \in DifficultyLevel : UpdateDifficulty(i, d)

SpecCycle == Init /\ [][NextCycle]_vars


----------------------------------------------------------------------------
(* FlashcardManager: self.flashcards is the sequence cards, its members are
   named by their positions in it, and self.storage_file is file *)

RECURSIVE SumOf(_)
\* sum(xs) for a sequence of numbers
SumOf(xs) == IF xs = <<>> THEN 0 ELSE Head(xs) + SumOf(Tail(xs))

\* the positions of the cards, in order: [k for k, card in enumerate(flashcards)]
Positions(flashcards) == [k \in 1..Len(flashcards) |-> k]

\* the position of the first card with this card_id, 0 if there is none
\* (the loops of get_flashcard and remove_flashcard)
Find(flashcards, card_id) ==
    IF \E i \in DOMAIN flashcards : flashcards[i].card_id = card_id
    THEN CHOOSE i \in DOMAIN flashcards :
             /\ flashcards[i].card_id = card_id
             /\ \A j \in 1..(i - 1) : flashcards[j].card_id # card_id
    ELSE 0


\* the removal that fills the gap with the last element
SwapPop(flashcards, i) ==
    [k \in 1..(Len(flashcards) - 1) |->
        IF k = i THEN flashcards[Len(flashcards)] ELSE flashcards[k]]

\* list.pop(i)
Pop(flashcards, i) ==
    [k \in 1..(Len(flashcards) - 1) |-> IF k < i THEN flashcards[k] ELSE flashcards[k + 1]]

\* json.dump of a dictionary made by to_dict: the text holds the entries of
\* the history list
json_dump(d, heap) == [d EXCEPT !.review_history = heap[d.review_history]]

\* json.load of a record: its history, if it has one, is a new list object l
json_load(r, l) ==
    IF "review_history" \in DOMAIN r THEN [r EXCEPT !.review_history = l] ELSE r

\* save_flashcards: the file afterwards. A PermissionError from open() is
\* caught and printed, and the file is left as it was
save_flashcards(f, flashcards, heap) ==
    IF f.writable
    THEN [exists |-> TRUE,
          records |-> [k \in DOMAIN flashcards |-> json_dump(to_dict(flashcards[k]), heap)],
          error |-> None, writable |-> TRUE]
    ELSE f

\* datetime.fromisoformat(s) returns
Parsable(s) == \E t \in 0..(Max(MaxTime, MaxCycleTime) + MandatoryDays + 1) : ToString(t) = s

\* the exception Flashcard.from_dict(d) raises, None if it returns
from_dict_raises(d) ==
    IF "difficulty" \notin DOMAIN d THEN "KeyError"
    ELSE IF d.difficulty \notin {DifficultyName(x) : x \in DifficultyLevel} THEN "KeyError"
    ELSE IF ~({"recto", "verso", "card_id"} \subseteq DOMAIN d) THEN "KeyError"
    ELSE IF "created_at" \notin DOMAIN d THEN "KeyError"
    ELSE IF ~Parsable(d.created_at) THEN "ValueError"
    ELSE IF "last_reviewed" \notin DOMAIN d THEN "KeyError"
    ELSE IF d.last_reviewed # None /\ ~Parsable(d.last_reviewed) THEN "ValueError"
    ELSE IF "next_review" \notin DOMAIN d THEN "KeyError"
    ELSE IF ~Parsable(d.next_review) THEN "ValueError"
    ELSE IF "review_count" \notin DOMAIN d THEN "KeyError"
    ELSE IF Get(d, "last_mandatory_review", None) # None /\ ~Parsable(d.last_mandatory_review)
         THEN "ValueError"
    ELSE None

\* the exception raised inside the try block of load_flashcards, None if
\* there is none: by open() or json.load(), or by from_dict on the first record
\* it cannot read
raised(f) ==
    IF f.error # None THEN f.error
    ELSE LET bad == {k \in DOMAIN f.records : from_dict_raises(f.records[k]) # None}
         IN  IF bad = {} THEN None
             ELSE from_dict_raises(f.records[CHOOSE k \in bad : \A j \in bad : k <= j])

\* the exceptions load_flashcards has an except clause for
Handled == {"JSONDecodeError", "KeyError", "PermissionError", "OSError"}

\* load_flashcards from a file that is not the default one: the cards and the
\* list objects of a manager constructed on it
load_flashcards(f) ==
    IF f.exists
    THEN IF raised(f) = None
         THEN [flashcards |-> [k \in DOMAIN f.records |->
                                   from_dict(json_load(f.records[k], k), k)],
               heap |-> [k \in DOMAIN f.records |-> Get(f.records[k], "review_history", <<>>)],
               raised |-> None]
         ELSE IF raised(f) \in Handled
         THEN [flashcards |-> <<>>, heap |-> <<>>, raised |-> None]
         ELSE [flashcards |-> <<>>, heap |-> <<>>, raised |-> raised(f)]
    ELSE [flashcards |-> <<>>, heap |-> <<>>, raised |-> None]


\* get_all_flashcards returning the cards of every user
EveryFlashcard(flashcards, user_id) == Positions(flashcards)

\* get_all_flashcards
get_all_flashcards(flashcards, user_id) ==
    IF user_id = None THEN Positions(flashcards)
    ELSE SelectSeq(Positions(flashcards), LAMBDA k : flashcards[k].user_id = user_id)


\* get_due_flashcards without the restriction to the cards of user_id
DueOfAnyone(flashcards, t, user_id) ==
    SelectSeq(Positions(flashcards), LAMBDA k : is_due_for_review(flashcards[k], t, t))

\* get_due_flashcards before the shuffle, the clock at t during the call
get_due_flashcards(flashcards, t, user_id) ==
    LET due_cards == SelectSeq(Positions(flashcards),
                               LAMBDA k : is_due_for_review(flashcards[k], t, t))
    IN  IF user_id # None
        THEN SelectSeq(due_cards, LAMBDA k : flashcards[k].user_id = user_id)
        ELSE due_cards


\* a random draw, with repetition, of as many elements as the list has
Sample(xs) ==
    {[k \in DOMAIN xs |-> xs[p[k]]] : p \in [DOMAIN xs -> DOMAIN xs]}

\* the orders random.shuffle can leave a list in
shuffle(xs) ==
    {[k \in DOMAIN xs |-> xs[p[k]]] :
         p \in {q \in [DOMAIN xs -> DOMAIN xs] : \A a, b \in DOMAIN xs : q[a] = q[b] => a = b}}

\* get_flashcards_by_difficulty
get_flashcards_by_difficulty(flashcards, difficulty) ==
    SelectSeq(Positions(flashcards), LAMBDA k : flashcards[k].difficulty = difficulty)



\* the percentage cut, not rounded, to one decimal
Truncate(successes, entries) == (1000 * successes) \div entries

\* round(successes / entries * 100, 1) in tenths of a percent; a value half way
\* between two tenths goes to the even one
round(successes, entries) ==
    LET q == (1000 * successes) \div entries
        r == (1000 * successes) % entries
    IN  IF 2 * r < entries THEN q
        ELSE IF 2 * r > entries THEN q + 1
        ELSE IF q % 2 = 0 THEN q ELSE q + 1


\* the first of xs in place of the largest
FirstOf(xs) == IF xs = <<>> THEN 0 ELSE xs[1]

\* max(xs, default=0)
max(xs) == IF xs = <<>> THEN 0 ELSE CHOOSE m \in {xs[k] : k \in DOMAIN xs} :
                                        \A k \in DOMAIN xs : xs[k] <= m

\* FlashcardManager.get_statistics, the rate in tenths of a percent
get_statistics(flashcards, heap, t) ==
    LET total == Len(flashcards)
        due == Len(get_due_flashcards(flashcards, t, None))
        easy == Len(get_flashcards_by_difficulty(flashcards, EASY))
        medium == Len(get_flashcards_by_difficulty(flashcards, MEDIUM))
        hard == Len(get_flashcards_by_difficulty(flashcards, HARD))
        total_reviews == SumOf([k \in DOMAIN flashcards |-> flashcards[k].review_count])
        total_successes ==
            SumOf([k \in DOMAIN flashcards |->
                      IF heap[flashcards[k].review_history] # <<>>
                      THEN Sum(heap[flashcards[k].review_history]) ELSE 0])
        total_review_history ==
            SumOf([k \in DOMAIN flashcards |-> Len(heap[flashcards[k].review_history])])
        overall_success_rate ==
            IF total_review_history > 0
            THEN round(total_successes, total_review_history) ELSE 0
        best_streak == max([k \in DOMAIN flashcards |-> flashcards[k].success_streak])
        cards_with_streaks ==
            Len(SelectSeq(flashcards, LAMBDA card : card.success_streak > 0))
    IN  [total_cards |-> total, due_for_review |-> due, easy_cards |-> easy,
         medium_cards |-> medium, hard_cards |-> hard, total_reviews |-> total_reviews,
         overall_success_rate |-> overall_success_rate,
         best_streak |-> best_streak, cards_with_streaks |-> cards_with_streaks]

\* get_stats of the API for the user current_user_id, the rate in tenths of a
\* percent
get_stats(flashcards, heap, t, current_user_id) ==
    LET positions == get_all_flashcards(flashcards, current_user_id)
        user_cards == [k \in DOMAIN positions |-> flashcards[positions[k]]]
        total == Len(user_cards)
        due == Len(SelectSeq(user_cards, LAMBDA card : is_due_for_review(card, t, t)))
        easy == Len(SelectSeq(user_cards, LAMBDA card : card.difficulty = EASY))
        medium == Len(SelectSeq(user_cards, LAMBDA card : card.difficulty = MEDIUM))
        hard == Len(SelectSeq(user_cards, LAMBDA card : card.difficulty = HARD))
        total_reviews == SumOf([k \in DOMAIN user_cards |-> user_cards[k].review_count])
        total_successes ==
            SumOf([k \in DOMAIN user_cards |->
                      IF heap[user_cards[k].review_history] # <<>>
                      THEN Sum(heap[user_cards[k].review_history]) ELSE 0])
        total_review_history ==
            SumOf([k \in DOMAIN user_cards |-> Len(heap[user_cards[k].review_history])])
        overall_success_rate ==
            IF total_review_history > 0
            THEN round(total_successes, total_review_history) ELSE 0
        best_streak == max([k \in DOMAIN user_cards |-> user_cards[k].success_streak])
        cards_with_streaks ==
            Len(SelectSeq(user_cards, LAMBDA card : card.success_streak > 0))
    IN  [total_cards |-> total, due_for_review |-> due, easy_cards |-> easy,
         medium_cards |-> medium, hard_cards |-> hard, total_reviews |-> total_reviews,
         overall_success_rate |-> overall_success_rate,
         best_streak |-> best_streak, cards_with_streaks |-> cards_with_streaks]



\* an identifier that counts the cards the manager has
CountedId == Len(cards) + 1

\* Flashcard._generate_id: a uuid4, which no object made before has
generate_id == Len(lists) + 1

\* manager.add_flashcard(**arguments): the constructor reads the clock twice
AddFlashcard(arguments, t2) ==
    /\ LET difficulty == Get(arguments, "difficulty", MEDIUM)
           category == Get(arguments, "category", None)
           user_id == Get(arguments, "user_id", None)
           card == NewCard(arguments.recto, arguments.verso, difficulty, generate_id,
                           category, user_id, Len(lists) + 1, now, t2)
       IN  /\ cards' = Append(cards, card)
           /\ lists' = Append(lists, <<>>)
           /\ last' = Op("add", 0, FALSE, MEDIUM, MEDIUM)
           /\ result' = Call(0, user_id, FALSE, TRUE, <<Len(cards) + 1>>, NoStatistics)
    /\ file' = save_flashcards(file, cards', lists')
    /\ now' = t2
    /\ run' = NoRun
    /\ UNCHANGED data


\* remove_flashcard calling save_flashcards whether or not it found the card
RemoveAndSave(card_id) ==
    /\ LET i == Find(cards, card_id)
       IN  IF i # 0
           THEN /\ cards' = Pop(cards, i)
                /\ result' = Call(card_id, None, FALSE, TRUE, <<>>, NoStatistics)
           ELSE /\ result' = Call(card_id, None, FALSE, FALSE, <<>>, NoStatistics)
                /\ UNCHANGED cards
    /\ file' = save_flashcards(file, cards', lists)
    /\ last' = Op("remove", 0, FALSE, MEDIUM, MEDIUM)
    /\ run' = NoRun
    /\ UNCHANGED <<now, lists, data>>

\* manager.remove_flashcard(card_id)
RemoveFlashcard(card_id) ==
    /\ LET i == Find(cards, card_id)
       IN  IF i # 0
           THEN /\ cards' = Pop(cards, i)
                /\ file' = save_flashcards(file, cards', lists)
                /\ result' = Call(card_id, None, FALSE, TRUE, <<>>, NoStatistics)
           ELSE /\ result' = Call(card_id, None, FALSE, FALSE, <<>>, NoStatistics)
                /\ UNCHANGED <<cards, file>>
    /\ last' = Op("remove", 0, FALSE, MEDIUM, MEDIUM)
    /\ run' = NoRun
    /\ UNCHANGED <<now, lists, data>>

\* manager.get_flashcard(card_id)
GetFlashcard(card_id) ==
    /\ LET i == Find(cards, card_id)
       IN  result' = Call(card_id, None, FALSE, i # 0,
                          IF i # 0 THEN <<i>> ELSE <<>>, NoStatistics)
    /\ last' = Op("get", 0, FALSE, MEDIUM, MEDIUM)
    /\ run' = NoRun
    /\ UNCHANGED <<now, cards, lists, data, file>>


\* update_card_difficulty returning without save_flashcards
UpdateUnsaved(card_id, new_difficulty) ==
    /\ LET i == Find(cards, card_id)
       IN  IF i # 0
           THEN /\ cards' = [cards EXCEPT ![i] = update_difficulty(cards[i], new_difficulty)]
                /\ result' = Call(card_id, None, FALSE, TRUE, <<>>, NoStatistics)
           ELSE /\ result' = Call(card_id, None, FALSE, FALSE, <<>>, NoStatistics)
                /\ UNCHANGED cards
    /\ last' = Op("difficulty", 0, FALSE, MEDIUM, MEDIUM)
    /\ run' = NoRun
    /\ UNCHANGED <<now, lists, data, file>>

\* manager.update_card_difficulty(card_id, new_difficulty)
UpdateCardDifficulty(card_id, new_difficulty) ==
    /\ LET i == Find(cards, card_id)
       IN  IF i # 0
           THEN /\ cards' = [cards EXCEPT ![i] = update_difficulty(cards[i], new_difficulty)]
                /\ file' = save_flashcards(file, cards', lists)
                /\ result' = Call(card_id, None, FALSE, TRUE, <<>>, NoStatistics)
           ELSE /\ result' = Call(card_id, None, FALSE, FALSE, <<>>, NoStatistics)
                /\ UNCHANGED <<cards, file>>
    /\ last' = Op("difficulty", 0, FALSE, MEDIUM, MEDIUM)
    /\ run' = NoRun
    /\ UNCHANGED <<now, lists, data>>


\* mark_card_reviewed reviewing the first card of the manager once it has
\* found the card
MarkFirstCard(card_id, success) ==
    /\ LET i == Find(cards, card_id)
       IN  IF i # 0
           THEN LET card == cards[1]
                    l == card.review_history
                IN  /\ cards' = [cards EXCEPT
                                     ![1] = mark_reviewed(card, lists[l], success, now)]
                    /\ lists' = [lists EXCEPT ![l] = Append(@, success)]
                    /\ file' = save_flashcards(file, cards', lists')
                    /\ result' = Call(card_id, None, FALSE, TRUE, <<>>, NoStatistics)
           ELSE /\ result' = Call(card_id, None, FALSE, FALSE, <<>>, NoStatistics)
                /\ UNCHANGED <<cards, lists, file>>
    /\ last' = Op("mark", 0, success, MEDIUM, MEDIUM)
    /\ run' = NoRun
    /\ UNCHANGED <<now, data>>

\* manager.mark_card_reviewed(card_id, success)
MarkCardReviewed(card_id, success) ==
    /\ LET i == Find(cards, card_id)
       IN  IF i # 0
           THEN LET card == cards[i]
                    l == card.review_history
                IN  /\ cards' = [cards EXCEPT
                                     ![i] = mark_reviewed(card, lists[l], success, now)]
                    /\ lists' = [lists EXCEPT ![l] = Append(@, success)]
                    /\ file' = save_flashcards(file, cards', lists')
                    /\ result' = Call(card_id, None, FALSE, TRUE, <<>>, NoStatistics)
           ELSE /\ result' = Call(card_id, None, FALSE, FALSE, <<>>, NoStatistics)
                /\ UNCHANGED <<cards, lists, file>>
    /\ last' = Op("mark", 0, success, MEDIUM, MEDIUM)
    /\ run' = NoRun
    /\ UNCHANGED <<now, data>>

\* manager.get_due_flashcards(shuffle, user_id)
GetDueFlashcards(shuffled, user_id) ==
    /\ LET due_cards == get_due_flashcards(cards, now, user_id)
       IN  \E returned \in IF shuffled THEN shuffle(due_cards) ELSE {due_cards} :
               result' = Call(0, user_id, shuffled, returned # <<>>, returned, NoStatistics)
    /\ last' = Op("due", 0, FALSE, MEDIUM, MEDIUM)
    /\ run' = NoRun
    /\ UNCHANGED <<now, cards, lists, data, file>>

\* manager.get_statistics()
GetStatistics ==
    /\ result' = Call(0, None, FALSE, TRUE, <<>>, get_statistics(cards, lists, now))
    /\ last' = Op("statistics", 0, FALSE, MEDIUM, MEDIUM)
    /\ run' = NoRun
    /\ UNCHANGED <<now, cards, lists, data, file>>

\* GET /api/stats by the user current_user_id
GetStats(current_user_id) ==
    /\ result' = Call(0, current_user_id, FALSE, TRUE, <<>>,
                      get_stats(cards, lists, now, current_user_id))
    /\ last' = Op("stats", 0, FALSE, MEDIUM, MEDIUM)
    /\ run' = NoRun
    /\ UNCHANGED <<now, cards, lists, data, file>>

\* the users of the API
Users == {"user1", "user2"}

\* the keyword arguments add_flashcard is called with
Arguments ==
    {[recto |-> "Q", verso |-> "A"],
     [recto |-> "Q1", verso |-> "A1", difficulty |-> EASY, user_id |-> "user1"],
     [recto |-> "Q2", verso |-> "A2", difficulty |-> HARD, category |-> "Math",
      user_id |-> "user2"]}

\* the keyword arguments it is called with when cards are removed as well:
\* all the defaults, or none
StoreArguments == {arguments \in Arguments :
                       "difficulty" \in DOMAIN arguments => "category" \in DOMAIN arguments}


\* the categories cards are given, in the order Python puts strings in
CodePointOrder == <<"", "History", "Math", "Programming">>

\* a < b for two strings
Less(a, b) ==
    \E i, j \in DOMAIN CodePointOrder :
        CodePointOrder[i] = a /\ CodePointOrder[j] = b /\ i < j

\* list(categories) left in the order the set gave it
Unsorted(categories) ==
    CHOOSE s \in [1..Cardinality(categories) -> categories] :
        /\ \A a, b \in DOMAIN s : s[a] = s[b] => a = b
        /\ \A a, b \in DOMAIN s : a < b => ~Less(s[a], s[b])

\* sorted(list(categories))
sorted(categories) ==
    CHOOSE s \in [1..Cardinality(categories) -> categories] :
        /\ \A a, b \in DOMAIN s : s[a] = s[b] => a = b
        /\ \A a, b \in DOMAIN s : a < b => Less(s[a], s[b])

\* bool(category): None and the empty string are false
Truth(category) == category # None /\ category # ""

\* get_all_categories
get_all_categories(flashcards) ==
    sorted({flashcards[k].category : k \in {i \in DOMAIN flashcards :
                                                Truth(flashcards[i].category)}})

\* manager.get_all_categories(): returned holds the categories
GetAllCategories ==
    /\ result' = Call(0, None, FALSE, get_all_categories(cards) # <<>>,
                      get_all_categories(cards), NoStatistics)
    /\ last' = Op("categories", 0, FALSE, MEDIUM, MEDIUM)
    /\ run' = NoRun
    /\ UNCHANGED <<now, cards, lists, data, file>>

\* the keyword arguments of cards added with and without a category
CategoryArguments ==
    {[recto |-> "Q", verso |-> "A"]} \cup
    {[recto |-> "Q", verso |-> "A", difficulty |-> EASY, category |-> c] :
         c \in {CodePointOrder[k] : k \in DOMAIN CodePointOrder}}

\* A manager whose cards are given categories, and the categories listed.
NextCategories ==
    \/ /\ Len(lists) < MaxCategoryCards
       /\ \E arguments \in CategoryArguments : AddFlashcard(arguments, now)
    \/ \E card_id \in 1..MaxCategoryCards : RemoveFlashcard(card_id)
    \/ GetAllCategories

SpecCategories == Init /\ [][NextCategories]_vars


\* FlashcardManager(storage_file) on a file that holds document: the manager
\* the program goes on with. value is whether the constructor returned
Construct(document) ==
    /\ LET loaded == load_flashcards(document)
       IN  /\ cards' = loaded.flashcards
           /\ lists' = loaded.heap
           /\ result' = Call(0, None, FALSE, loaded.raised = None, <<>>, NoStatistics)
    /\ file' = document
    /\ last' = Op("construct", 0, FALSE, MEDIUM, MEDIUM)
    /\ run' = NoRun
    /\ UNCHANGED <<now, data>>

\* d without one of its keys
Without(d, key) == [x \in DOMAIN d \ {key} |-> d[x]]

\* what a file that was saved as f may hold when the program is started on
\* it again: f, or f made read-only or unreadable, or f truncated, or f with a
\* record that lost a field or holds a tier name or a timestamp nobody wrote
Documents(f) ==
    IF f.exists /\ f.writable /\ raised(f) = None
    THEN {f, [f EXCEPT !.writable = FALSE]}
         \cup {[f EXCEPT !.error = e] : e \in {"PermissionError", "OSError", "JSONDecodeError"}}
         \cup {[f EXCEPT !.records[k] = Without(@, key)] :
                   k \in DOMAIN f.records, key \in {"recto", "review_count"}}
         \cup {[f EXCEPT !.records[k].difficulty = "EXPERT"] : k \in DOMAIN f.records}
         \cup {[f EXCEPT !.records[k].created_at = "yesterday"] : k \in DOMAIN f.records}
         \cup {[f EXCEPT !.records[k].next_review = "tomorrow"] : k \in DOMAIN f.records}
    ELSE {f}

\* the constructor of the manager returned
Constructed == last.op = "construct" => result.value

\* A manager that adds and reviews cards, and is constructed again on what
\* its file then holds.
NextStorage ==
    \/ /\ Constructed
       /\ Len(lists) < MaxStorageCards
       /\ \E arguments \in StoreArguments : AddFlashcard(arguments, now)
    \/ /\ Constructed
       /\ Recorded < MaxStorageReviews
       /\ \E card_id \in 1..MaxStorageCards, success \in BOOLEAN :
              MarkCardReviewed(card_id, success)
    \/ \E document \in Documents(file) : Construct(document)

SpecStorage == Init /\ [][NextStorage]_vars

\* the card_ids the manager is called with, known and unknown
CardIds == 1..MaxStoreCards

\* A manager on a storage file of its own: cards are added, reviewed,
\* updated, removed and listed through it.
NextStore ==
    \/ /\ Len(lists) < MaxStoreCards
       /\ \E arguments \in StoreArguments : AddFlashcard(arguments, now)
    \/ \E card_id \in CardIds : RemoveFlashcard(card_id)
    \/ \E card_id \in CardIds : GetFlashcard(card_id)
    \/ \E card_id \in CardIds, d \in DifficultyLevel : UpdateCardDifficulty(card_id, d)
    \/ /\ Recorded < MaxStoreReviews
       /\ \E card_id \in CardIds, s \in BOOLEAN : MarkCardReviewed(card_id, s)

SpecStore == Init /\ [][NextStore]_vars


\* A manager whose cards are listed and counted as they are added and
\* reviewed over the days.
NextQuery ==
    \/ /\ now < MaxQueryTime
       /\ Tick
    \/ /\ Len(lists) < MaxQueryCards
       /\ \E arguments \in Arguments, t2 \in now..Min(now + 1, MaxQueryTime) :
              AddFlashcard(arguments, t2)
    \/ /\ Recorded < MaxQueryReviews
       /\ \E card_id \in 1..MaxQueryCards, s \in BOOLEAN : MarkCardReviewed(card_id, s)
    \/ \E shuffled \in BOOLEAN, user_id \in {None} \cup Users :
           GetDueFlashcards(shuffled, user_id)
    \/ \E user_id \in Users : GetStats(user_id)

SpecQuery == Init /\ [][NextQuery]_vars

----------------------------------------------------------------------------
(* Properties *)

\* the review history of card i
History(i) == lists[cards[i].review_history]

RECURSIVE TrailingRun(_)
\* the length of the maximal run of TRUE at the end of h
TrailingRun(h) ==
    IF h = <<>> \/ ~h[Len(h)] THEN 0 ELSE 1 + TrailingRun(SubSeq(h, 1, Len(h) - 1))

\* the number of TRUE among the last five entries of h
RecentSuccesses(h) == Cardinality({k \in 1..Len(h) : k > Len(h) - 5 /\ h[k]})

\* the last operation was a review of a card
Reviewed == last.op = "review"

\* C1: in every state of every card, review_count equals the length of its
\* review history.
C1_CountIsHistoryLength ==
    \A i \in DOMAIN cards : cards[i].review_count = Len(History(i))

\* C2: in every state of every card, success_streak is the length of the
\* trailing run of successes in its review history.
C2_StreakIsTrailingRun ==
    \A i \in DOMAIN cards : cards[i].success_streak = TrailingRun(History(i))

\* C3: after a review at time now, next_review is now plus the interval
\* computed from the difficulty as adjusted by this review and from the streak
\* as updated by this review.
C3_IntervalFromAdjustedTier ==
    Reviewed =>
        LET c == cards[last.card]
        IN  /\ c.last_reviewed = now
            /\ c.next_review =
                 now + calculate_review_interval(c.difficulty, c.success_streak, last.success)

\* a review has just moved a HARD card with a streak of 3 or more to MEDIUM
C3_Witness ==
    /\ Reviewed /\ last.before = HARD
    /\ cards[last.card].difficulty = MEDIUM
    /\ cards[last.card].success_streak >= 3

\* C4: a review that leaves 5 entries or more, with k successes among the last
\* five: k >= 4 moves a card that is not EASY one step easier, otherwise k <= 2
\* moves a card that is not HARD one step harder, otherwise the difficulty
\* stays.
C4_AdjustmentRule ==
    Reviewed /\ Len(History(last.card)) >= 5 =>
        LET k == RecentSuccesses(History(last.card))
            before == last.before
        IN  cards[last.card].difficulty =
                IF k >= 4 /\ before # EASY THEN before - 1
                ELSE IF k <= 2 /\ before # HARD THEN before + 1
                ELSE before

\* an EASY card reviewed true, true, false, false, false has become MEDIUM
C4_Witness ==
    /\ Reviewed /\ last.before = EASY
    /\ History(last.card) = <<TRUE, TRUE, FALSE, FALSE, FALSE>>
    /\ cards[last.card].difficulty = MEDIUM

\* C5: a review that leaves fewer than 5 entries in the history does not
\* change the difficulty.
C5_NoAdjustmentBeforeFive ==
    Reviewed /\ Len(History(last.card)) < 5 =>
        cards[last.card].difficulty = last.before

\* the fourth review of a HARD card, all four successful
C5_Witness ==
    /\ Reviewed /\ last.before = HARD
    /\ History(last.card) = <<TRUE, TRUE, TRUE, TRUE>>
    /\ cards[last.card].review_count = 4

\* C6: a review changes the difficulty by at most one step.
C6_OneStep ==
    Reviewed =>
        LET d == cards[last.card].difficulty - last.before
        IN  d \in {-1, 0, 1}

\* a HARD card with five successes among its last five of six has moved
C6_Witness ==
    /\ Reviewed /\ last.before = HARD
    /\ Len(History(last.card)) >= 6
    /\ RecentSuccesses(History(last.card)) = 5
    /\ cards[last.card].difficulty # HARD

\* C7: a new HARD card reviewed successfully n times in a row is HARD while
\* n < 5, MEDIUM at n = 5 and EASY from n = 6 on.
C7_SuccessRun ==
    run.card # 0 =>
        cards[run.card].difficulty =
            IF run.n < 5 THEN HARD ELSE IF run.n = 5 THEN MEDIUM ELSE EASY

\* the seventh success in a row of a new HARD card
C7_Witness ==
    /\ run.card # 0 /\ run.n = 7
    /\ cards[run.card].difficulty = EASY

\* C8 as stated: no successful review and no update_difficulty leaves
\* next_review earlier than it was.
C8_NeverBackward ==
    [][(last'.op = "review" /\ last'.success) \/ last'.op = "update" =>
         cards'[last'.card].next_review >= cards[last'.card].next_review]_vars

\* C8 amended: a successful review that does not step the difficulty harder,
\* an update_difficulty to a strictly easier difficulty and an
\* update_difficulty of a card never reviewed do not leave next_review earlier
\* than it was.
C8_BackwardOnlyWhenHarder ==
    [][/\ last'.op = "review" /\ last'.success
          /\ cards'[last'.card].difficulty <= last'.before
          => cards'[last'.card].next_review >= cards[last'.card].next_review
       /\ last'.op = "update"
          /\ (last'.difficulty < last'.before \/ cards[last'.card].last_reviewed = NoTime)
          => cards'[last'.card].next_review >= cards[last'.card].next_review]_vars

\* a successful review has followed an earlier review on a later day without
\* making the card harder
C8_Witness ==
    /\ Reviewed /\ last.success
    /\ cards[last.card].review_count >= 2
    /\ cards[last.card].difficulty <= last.before
    /\ cards[last.card].last_reviewed > cards[last.card].created_at

\* C9: after a successful review that leaves the card MEDIUM with a streak
\* below 3, next_review is exactly 3 days after last_reviewed.
C9_MediumThreeDays ==
    /\ Reviewed /\ last.success
    /\ cards[last.card].difficulty = MEDIUM
    /\ cards[last.card].success_streak < 3
    => cards[last.card].next_review - cards[last.card].last_reviewed = 3

\* a MEDIUM card after its second success in a row
C9_Witness ==
    /\ Reviewed /\ last.success
    /\ cards[last.card].difficulty = MEDIUM
    /\ cards[last.card].success_streak = 2

\* C10: after a failed review, next_review is max(1, B \div 2) days after
\* last_reviewed, B the base interval of the card's difficulty: at least 1 day
\* and at most ceil(B / 2) days.
C10_FailureGap ==
    Reviewed /\ ~last.success =>
        LET c == cards[last.card]
            B == CASE c.difficulty = EASY -> 7
                   [] c.difficulty = MEDIUM -> 3
                   [] c.difficulty = HARD -> 1
            gap == c.next_review - c.last_reviewed
        IN  /\ gap >= 1
            /\ gap <= (B + 1) \div 2
            /\ gap = (IF B \div 2 >= 1 THEN B \div 2 ELSE 1)

\* a HARD card has failed after three successes in a row
C10_Witness ==
    /\ Reviewed /\ ~last.success
    /\ cards[last.card].difficulty = HARD
    /\ Len(History(last.card)) >= 4
    /\ LET h == History(last.card)
       IN  h[Len(h) - 1] /\ h[Len(h) - 2] /\ h[Len(h) - 3]

\* the base interval of a tier, in days
BaseInterval(d) == IF d = EASY THEN 7 ELSE IF d = MEDIUM THEN 3 ELSE 1

\* C11 as stated: after a failed review the gap to next_review is strictly
\* shorter than the base interval of the card's difficulty and at least 1 day.
C11_FailureStrictlyShorter ==
    Reviewed /\ ~last.success =>
        LET c == cards[last.card]
            gap == c.next_review - c.last_reviewed
        IN  gap >= 1 /\ gap < BaseInterval(c.difficulty)

\* C11 amended: after a failed review the gap is at least 1 day and at most
\* the base interval; it is strictly shorter for EASY and MEDIUM cards and
\* equal to the base interval of 1 day for HARD cards.
C11_FailureShorterUnlessHard ==
    Reviewed /\ ~last.success =>
        LET c == cards[last.card]
            gap == c.next_review - c.last_reviewed
        IN  /\ gap >= 1
            /\ c.difficulty # HARD => gap < BaseInterval(c.difficulty)
            /\ c.difficulty = HARD => gap = 1

\* failed reviews have left an EASY card EASY, with 3 days instead of 7
C11_Witness ==
    /\ Reviewed /\ ~last.success
    /\ cards[last.card].difficulty = EASY
    /\ cards[last.card].next_review - cards[last.card].last_reviewed = 3

\* C13: a failed review sets success_streak to 0 whatever it was, a successful
\* review increases it by exactly 1.
C13_StreakLaw ==
    [][last'.op = "review" =>
         cards'[last'.card].success_streak =
             IF last'.success THEN cards[last'.card].success_streak + 1 ELSE 0]_vars

\* a failure after four successes in a row has reset the streak
C13_Witness ==
    /\ Reviewed /\ ~last.success
    /\ History(last.card) = <<TRUE, TRUE, TRUE, TRUE, FALSE>>
    /\ cards[last.card].success_streak = 0

\* C18: update_difficulty sets the difficulty to the new one; a card reviewed
\* before gets next_review = last_reviewed + the plain base interval of the new
\* difficulty; a card never reviewed keeps its next_review and stays due.
C18_UpdateDifficulty ==
    [][last'.op = "update" =>
         LET c == cards[last'.card]
             c2 == cards'[last'.card]
         IN  /\ c2.difficulty = last'.difficulty
             /\ c.last_reviewed # NoTime =>
                  c2.next_review = c.last_reviewed + BaseInterval(last'.difficulty)
             /\ c.last_reviewed = NoTime =>
                  c2.next_review = c.next_review /\ now' >= c2.next_review]_vars

\* a card with a streak of 3 or more, last reviewed successfully, has been
\* set to another difficulty
C18_Witness ==
    /\ last.op = "update" /\ last.difficulty # last.before
    /\ cards[last.card].success_streak >= 3
    /\ cards[last.card].last_reviewed # NoTime
    /\ cards[last.card].next_review =
         cards[last.card].last_reviewed + BaseInterval(last.difficulty)

\* C12: after a successful review that leaves a streak of 3 or more, the gap
\* to next_review is min(14, B + min(2, streak \div 3)), B the base interval of
\* the difficulty after the review: B + 1 for streaks 3 to 5, B + 2 for every
\* streak from 6 on, and never more than 14 days.
C12_StreakBonus ==
    /\ Reviewed /\ last.success
    /\ cards[last.card].success_streak >= 3
    => LET c == cards[last.card]
           B == BaseInterval(c.difficulty)
           third == c.success_streak \div 3
           capped == IF third <= 2 THEN third ELSE 2
           gap == c.next_review - c.last_reviewed
       IN  /\ gap = (IF B + capped <= 14 THEN B + capped ELSE 14)
           /\ c.success_streak <= 5 => gap = B + 1
           /\ c.success_streak >= 6 => gap = B + 2
           /\ gap <= 14

\* the ninth success in a row, where a third of the streak exceeds the cap
C12_Witness ==
    /\ Reviewed /\ last.success
    /\ cards[last.card].success_streak = 9
    /\ cards[last.card].next_review - cards[last.card].last_reviewed
         = BaseInterval(cards[last.card].difficulty) + 2

\* the clock readings from the present to two weeks past the end of the clock
Later == now..(MaxCycleTime + MandatoryDays)

\* a mandatory review of card c is owed at time t
Owed(c, t) ==
    \/ c.last_mandatory_review = NoTime /\ t >= c.created_at + MandatoryDays
    \/ c.last_mandatory_review # NoTime /\ t >= c.last_mandatory_review + MandatoryDays

\* C14: a card that has been constructed and not yet reviewed is due at every
\* reading of the clock from the end of its construction on.
C14_NewCardIsDue ==
    \A i \in DOMAIN cards :
        cards[i].last_reviewed = NoTime =>
            \A t1 \in Later : \A t2 \in {t1, t1 + 1} : is_due_for_review(cards[i], t1, t2)

\* a card has just been constructed, its next_review read from the clock now
C14_Witness ==
    /\ last.op = "create"
    /\ cards[last.card].next_review = now
    /\ cards[last.card].review_count = 0

\* C15: a card is due at t exactly when t >= next_review, or no mandatory
\* review was recorded and t >= created_at + 14 days, or one was recorded and
\* t >= last_mandatory_review + 14 days.
C15_DueCondition ==
    \A i \in DOMAIN cards : \A t \in Later :
        is_due_for_review(cards[i], t, t) <=>
            \/ t >= cards[i].next_review
            \/ cards[i].last_mandatory_review = NoTime /\ t >= cards[i].created_at + 14
            \/ cards[i].last_mandatory_review # NoTime
               /\ t >= cards[i].last_mandatory_review + 14

\* a card whose next_review is in the future is due now because two weeks have
\* passed since its last mandatory review
C15_Witness ==
    \E i \in DOMAIN cards :
        /\ now < cards[i].next_review
        /\ cards[i].last_mandatory_review # NoTime
        /\ now >= cards[i].last_mandatory_review + 14
        /\ is_due_for_review(cards[i], now, now)

\* C16: a review at time now sets last_mandatory_review to now if a mandatory
\* review was owed at now and leaves it as it was otherwise; a card whose
\* marker is absent after the review is due at created_at + 14 days.
C16_MandatoryMarker ==
    [][last'.op = "review" =>
         LET c == cards[last'.card]
             c2 == cards'[last'.card]
         IN  /\ Owed(c, now) => c2.last_mandatory_review = now
             /\ ~Owed(c, now) => c2.last_mandatory_review = c.last_mandatory_review
             /\ (c2.last_mandatory_review # c.last_mandatory_review) <=> Owed(c, now)
             /\ c2.last_mandatory_review = NoTime =>
                  /\ now < c.created_at + 14
                  /\ is_due_for_review(c2, c.created_at + 14, c.created_at + 14)]_vars

\* the third review of a card, four weeks after its creation, has moved the
\* marker a second time
C16_Witness ==
    /\ Reviewed
    /\ cards[last.card].review_count = 3
    /\ cards[last.card].last_mandatory_review = now
    /\ now >= cards[last.card].created_at + 28

\* C17: a card is due at every time 14 days or more after its last review, or
\* after its creation when it was never reviewed.
C17_MandatoryFloor ==
    \A i \in DOMAIN cards : \A t \in Later :
        LET since == IF cards[i].last_reviewed = NoTime THEN cards[i].created_at
                     ELSE cards[i].last_reviewed
        IN  t >= since + 14 => is_due_for_review(cards[i], t, t)

\* two weeks have passed since the last review of a card whose mandatory
\* marker is older than that review
C17_Witness ==
    /\ last.op = "tick"
    /\ \E i \in DOMAIN cards :
        /\ cards[i].last_reviewed # NoTime
        /\ cards[i].last_mandatory_review # NoTime
        /\ cards[i].last_reviewed > cards[i].last_mandatory_review
        /\ now >= cards[i].last_reviewed + 14

\* C20: a card rebuilt by from_dict from its to_dict has every field equal to
\* the original's.
C20_RoundTrip ==
    \A i \in DOMAIN cards : from_dict(to_dict(cards[i]), 0) = cards[i]

\* a card with a streak, a mandatory marker older than its last review and a
\* changed difficulty
C20_Witness ==
    \E i \in DOMAIN cards :
        /\ cards[i].success_streak >= 2
        /\ cards[i].last_mandatory_review # NoTime
        /\ cards[i].last_reviewed > cards[i].last_mandatory_review
        /\ cards[i].difficulty = HARD
        /\ to_dict(cards[i]).last_mandatory_review # to_dict(cards[i]).last_reviewed

\* the histories of at most n outcomes
Histories(n) == UNION {[1..k -> BOOLEAN] : k \in 0..n}

\* the card with list l after it was constructed on day 0, reviewed on day 0
\* with the outcomes h and then set to difficulty d
ReviewedCard(d, h, l) ==
    [card_id |-> l, recto |-> "Q", verso |-> "A",
     difficulty |-> d, category |-> None, user_id |-> None,
     created_at |-> 0,
     last_reviewed |-> IF h = <<>> THEN NoTime ELSE 0,
     next_review |-> IF h = <<>> THEN 0 ELSE get_review_interval(d),
     review_count |-> Len(h), review_history |-> l,
     last_mandatory_review |-> NoTime, success_streak |-> TrailingRun(h)]

\* Two cards of the same difficulty with any two histories
InitPair ==
    /\ now = 0
    /\ \E d \in DifficultyLevel : \E h1, h2 \in Histories(MaxPairHistory) :
        /\ cards = <<ReviewedCard(d, h1, 1), ReviewedCard(d, h2, 2)>>
        /\ lists = <<h1, h2>>
    /\ data = <<>>
    /\ last = Op("init", 0, FALSE, MEDIUM, MEDIUM)
    /\ run = NoRun
    /\ file = NoFile
    /\ result = NoCall

\* each of the two cards is reviewed once, the first and then the second
NextPair ==
    \/ /\ last.op = "init"
       /\ \E s \in BOOLEAN : MarkReviewed(1, s)
    \/ /\ last.op = "review" /\ last.card = 1
       /\ \E s \in BOOLEAN : MarkReviewed(2, s)

SpecPair == InitPair /\ [][NextPair]_vars

\* C19: two cards of the same difficulty whose histories agree on their last
\* five entries after a review of each have the same difficulty after it,
\* whatever the older entries and the lengths.
C19_OnlyLastFiveMatter ==
    /\ Reviewed /\ last.card = 2
    /\ LastFive(History(1)) = LastFive(History(2))
    => cards[1].difficulty = cards[2].difficulty

\* two cards with histories of different lengths and different older entries,
\* equal on the last five, have both changed difficulty
C19_Witness ==
    /\ Reviewed /\ last.card = 2
    /\ LastFive(History(1)) = LastFive(History(2))
    /\ Len(History(1)) = 5 /\ Len(History(2)) = 7
    /\ History(2)[1] # History(2)[3] /\ ~History(2)[2]
    /\ cards[2].difficulty # last.before
    /\ cards[1].difficulty = cards[2].difficulty

----------------------------------------------------------------------------
(* Records of the old format *)

\* the keys a record can lack: the ones from_dict reads with a default
Optional == {"category", "user_id", "review_history", "last_mandatory_review",
             "success_streak"}

\* d without the optional keys
Stripped(d) == [k \in DOMAIN d \ Optional |-> d[k]]

\* the card of the store was loaded from a record of the old format
Legacy == /\ cards # <<>>
          /\ data # <<>>
          /\ cards[1].card_id = data[1].card_id
          /\ "review_history" \notin DOMAIN data[1]

\* C21: a record without review_history, last_mandatory_review and
\* success_streak (and without category and user_id) loads with an empty
\* history, no mandatory review, a streak of 0 (and no category, no owner);
\* every later review of the loaded card adds one outcome to its history and
\* makes the streak one more on a success and 0 on a failure.
C21_OldRecordLoads ==
    [][/\ (last'.op = "from_dict" /\ "review_history" \notin DOMAIN data[1]) =>
              /\ History(1)' = <<>>
              /\ cards'[1].last_mandatory_review = NoTime
              /\ cards'[1].success_streak = 0
              /\ cards'[1].user_id = None
              /\ from_dict(Stripped(data[1]), Len(lists) + 1).category = None
              /\ from_dict(Stripped(data[1]), Len(lists) + 1).success_streak = 0
       /\ (Legacy /\ last'.op = "review") =>
              /\ History(1)' = Append(History(1), last'.success)
              /\ cards'[1].success_streak =
                     IF last'.success THEN cards[1].success_streak + 1 ELSE 0
      ]_vars

C21_Witness ==
    /\ Legacy
    /\ Reviewed
    /\ data[1].review_count = 2
    /\ History(1) = <<TRUE, FALSE, TRUE>>
    /\ cards[1].success_streak = 1
    /\ cards[1].review_count = 5

----------------------------------------------------------------------------
(* The manager and its storage file *)

\* the cards of a manager with their histories in place of the list objects
Contents(flashcards, heap) ==
    [k \in DOMAIN flashcards |->
        [flashcards[k] EXCEPT !.review_history = heap[flashcards[k].review_history]]]

\* the last call was one that changes the cards, and it found its card
Mutated == last.op \in {"add", "remove", "difficulty", "mark"} /\ result.value

\* C22: after every add, and every remove, review and change of difficulty
\* of a card the manager has, a second manager constructed on the same file
\* holds the same cards in the same order with equal fields.
C22_Persisted ==
    Mutated =>
        LET second == load_flashcards(file)
        IN  /\ file.exists
            /\ Contents(second.flashcards, second.heap) = Contents(cards, lists)

C22_Witness ==
    /\ Mutated
    /\ last.op = "difficulty"
    /\ Len(cards) = 3
    /\ cards[1].card_id = 1 /\ cards[3].card_id = 3
    /\ lists[cards[2].review_history] = <<FALSE>>
    /\ cards[2].difficulty = EASY /\ cards[2].next_review = 7
    /\ load_flashcards(file).flashcards[2].next_review = 7
    /\ load_flashcards(file).heap[2] = <<FALSE>>

\* no card of the manager has this card_id
Unknown(card_id) == \A i \in DOMAIN cards : cards[i].card_id # card_id

\* C23: remove_flashcard, mark_card_reviewed and update_card_difficulty called
\* with a card_id that no card of the manager has return False, get_flashcard
\* returns None, and the cards, their histories and the file stay as they were.
C23_NotFound ==
    [][(last'.op \in {"remove", "mark", "difficulty", "get"} /\ Unknown(result'.card_id)) =>
           /\ ~result'.value
           /\ result'.returned = <<>>
           /\ cards' = cards
           /\ lists' = lists
           /\ file' = file
      ]_vars

\* a review of a card that was removed from between two others
C23_Witness ==
    /\ last.op = "mark"
    /\ ~result.value
    /\ result.card_id = 2
    /\ Len(cards) = 2 /\ Unknown(2)
    /\ cards[1].card_id = 1 /\ cards[2].card_id = 3
    /\ Len(file.records) = 2

\* the card_ids of the cards at these positions of flashcards
IdsAt(flashcards, positions) ==
    {flashcards[positions[k]].card_id : k \in DOMAIN positions}

\* C24: remove_flashcard(card_id) returns True exactly when the manager had a
\* card with that card_id; then get_flashcard(card_id) finds nothing, no
\* listing of all cards or of the due cards has the card, and the other cards
\* are all there, unchanged and in the order they were in.
C24_Remove ==
    [][last'.op = "remove" =>
           LET card_id == result'.card_id
           IN  /\ result'.value = ~Unknown(card_id)
               /\ result'.value =>
                      /\ Find(cards', card_id) = 0
                      /\ \A user_id \in {None} \cup Users :
                             /\ card_id \notin
                                    IdsAt(cards', get_all_flashcards(cards', user_id))
                             /\ card_id \notin
                                    IdsAt(cards', get_due_flashcards(cards', now', user_id))
                      /\ cards' = SelectSeq(cards, LAMBDA card : card.card_id # card_id)
                      /\ lists' = lists
      ]_vars

\* the first of three cards is removed after the last one was reviewed
C24_Witness ==
    /\ last.op = "remove"
    /\ result.value
    /\ result.card_id = 1
    /\ Len(cards) = 2
    /\ cards[1].card_id = 2 /\ cards[2].card_id = 3
    /\ lists[cards[2].review_history] = <<TRUE>>
    /\ Len(file.records) = 2

\* C25: add_flashcard puts exactly one new card at the end of the cards of the
\* manager, with the recto, verso, category and user_id passed, the difficulty
\* passed or MEDIUM when none is, no review counted, recorded, dated or
\* stamped as mandatory, a streak of 0 and a card_id that no card of the
\* manager had; the cards the manager had are unchanged.
C25_Add ==
    [][\A arguments \in Arguments :
           AddFlashcard(arguments, now') =>
               LET card == cards'[Len(cards')]
               IN  /\ Len(cards') = Len(cards) + 1
                   /\ SubSeq(cards', 1, Len(cards)) = cards
                   /\ \A i \in DOMAIN cards :
                          /\ lists'[cards[i].review_history] = lists[cards[i].review_history]
                          /\ cards[i].card_id # card.card_id
                          /\ cards[i].review_history # card.review_history
                   /\ card.recto = arguments.recto
                   /\ card.verso = arguments.verso
                   /\ card.difficulty = IF "difficulty" \in DOMAIN arguments
                                        THEN arguments.difficulty ELSE MEDIUM
                   /\ card.category = IF "category" \in DOMAIN arguments
                                      THEN arguments.category ELSE None
                   /\ card.user_id = IF "user_id" \in DOMAIN arguments
                                     THEN arguments.user_id ELSE None
                   /\ card.review_count = 0
                   /\ lists'[card.review_history] = <<>>
                   /\ card.success_streak = 0
                   /\ card.last_reviewed = NoTime
                   /\ card.last_mandatory_review = NoTime
                   /\ result'.returned = <<Len(cards')>>
      ]_vars

\* a card is added with the defaults after the first of two cards was removed
C25_Witness ==
    /\ last.op = "add"
    /\ Len(cards) = 2
    /\ cards[1].card_id = 2 /\ cards[2].card_id = 3
    /\ cards[2].difficulty = MEDIUM /\ cards[2].user_id = None
    /\ cards[1].user_id = "user2" /\ cards[1].category = "Math"
    /\ lists[cards[1].review_history] = <<FALSE>>

----------------------------------------------------------------------------
(* The due cards *)

\* the positions of the cards among flashcards that are due at t and, when a
\* user_id is passed, are of that user
DueAt(flashcards, t, user_id) ==
    {i \in DOMAIN flashcards : /\ is_due_for_review(flashcards[i], t, t)
                               /\ user_id # None => flashcards[i].user_id = user_id}

\* C26: get_due_flashcards without shuffle returns exactly the cards of the
\* manager that are due (of the user passed, when one is), in the order in
\* which they were added; a second such call for the same user, with no
\* change and no time between the two, returns the same sequence.
C26_DueInOrder ==
    [][(last'.op = "due" /\ ~result'.shuffle) =>
           LET returned == result'.returned
           IN  /\ \A a, b \in DOMAIN returned : a < b => returned[a] < returned[b]
               /\ {returned[k] : k \in DOMAIN returned} = DueAt(cards', now', result'.user_id)
               /\ (last.op = "due" /\ ~result.shuffle /\ result.user_id = result'.user_id)
                      => returned = result.returned
      ]_vars

\* of two cards of the same user the one not reviewed is listed for that user
C26_Witness ==
    /\ last.op = "due" /\ ~result.shuffle
    /\ result.user_id = "user1"
    /\ Len(cards) = 2
    /\ cards[1].user_id = "user1" /\ cards[2].user_id = "user1"
    /\ cards[1].last_reviewed = 0 /\ now = 0
    /\ result.returned = <<2>>

\* C27: get_due_flashcards with shuffle returns the cards that the call
\* without shuffle returns, each once, in some order: the same card_ids, none
\* added, dropped or repeated; the cards of the manager keep their order, so
\* a call without shuffle after it returns them in the order they were added.
C27_ShuffleIsPermutation ==
    [][(last'.op = "due" /\ result'.shuffle) =>
           LET returned == result'.returned
               plain == get_due_flashcards(cards, now, result'.user_id)
           IN  /\ Len(returned) = Len(plain)
               /\ \A a, b \in DOMAIN returned : returned[a] = returned[b] => a = b
               /\ IdsAt(cards, returned) = IdsAt(cards, plain)
               /\ {returned[k] : k \in DOMAIN returned} = DueAt(cards, now, result'.user_id)
               /\ cards' = cards /\ lists' = lists /\ file' = file
               /\ get_due_flashcards(cards', now', result'.user_id) = plain
               /\ \A a, b \in DOMAIN plain : a < b => plain[a] < plain[b]
      ]_vars

\* two due cards come back with the second one first
C27_Witness ==
    /\ last.op = "due" /\ result.shuffle
    /\ result.user_id = None
    /\ result.returned = <<2, 1>>
    /\ cards[1].card_id = 1 /\ cards[2].card_id = 2
    /\ get_due_flashcards(cards, now, None) = <<1, 2>>

----------------------------------------------------------------------------
(* The statistics *)

\* A manager with some cards of any difficulties and histories: one of them
\* is reviewed once more and the statistics are taken.
InitStats ==
    /\ now = 0
    /\ \E n \in 0..MaxStatsCards :
       \E ds \in [1..n -> DifficultyLevel], hs \in [1..n -> Histories(MaxStatsHistory)] :
           /\ cards = [k \in 1..n |-> ReviewedCard(ds[k], hs[k], k)]
           /\ lists = hs
    /\ file = IF cards = <<>> THEN NoFile ELSE save_flashcards(NoFile, cards, lists)
    /\ data = <<>>
    /\ last = Op("init", 0, FALSE, MEDIUM, MEDIUM)
    /\ run = NoRun
    /\ result = NoCall

NextStats ==
    \/ /\ last.op = "init"
       /\ \E card_id \in 1..MaxStatsCards, s \in BOOLEAN : MarkCardReviewed(card_id, s)
    \/ GetStatistics

SpecStats == InitStats /\ [][NextStats]_vars

\* the entries of the histories of all cards, and the True ones among them
Entries == UNION {{<<i, j>> : j \in DOMAIN History(i)} : i \in DOMAIN cards}
Successes == {e \in Entries : History(e[1])[e[2]]}

\* C28: the overall success rate of get_statistics is 0 when no card has a
\* history entry, and otherwise the tenth of a percent nearest to 100 times
\* the number of True entries of all histories over the number of all entries.
C28_SuccessRate ==
    last.op = "statistics" =>
        LET rate == result.statistics.overall_success_rate
            S == Cardinality(Successes)
            N == Cardinality(Entries)
        IN  IF N = 0 THEN rate = 0
            ELSE /\ 2 * (1000 * S - rate * N) <= N
                 /\ 2 * (rate * N - 1000 * S) <= N

\* histories [T,T,T] and [T,F] give 80.0
C28_Witness ==
    /\ last.op = "statistics"
    /\ Len(cards) = 2
    /\ History(1) = <<TRUE, TRUE, TRUE>>
    /\ History(2) = <<TRUE, FALSE>>
    /\ result.statistics.overall_success_rate = 800

\* C29: get_statistics gives as best streak the largest success_streak of the
\* cards (0 when there is no card), as cards with streaks the number of cards
\* whose success_streak is above 0, as total reviews the sum of the
\* review_counts, and counts of easy, medium and hard cards that add up to the
\* number of cards; the best streak is 0 exactly when no card has a streak.
C29_Counts ==
    last.op = "statistics" =>
        LET s == result.statistics
            Streaks == {cards[i].success_streak : i \in DOMAIN cards}
            Counted == UNION {{<<i, j>> : j \in 1..cards[i].review_count} :
                                  i \in DOMAIN cards}
        IN  /\ \A n \in Streaks : n <= s.best_streak
            /\ s.best_streak \in Streaks \cup {0}
            /\ cards = <<>> => s.best_streak = 0
            /\ s.cards_with_streaks =
                   Cardinality({i \in DOMAIN cards : cards[i].success_streak > 0})
            /\ s.total_reviews = Cardinality(Counted)
            /\ s.easy_cards + s.medium_cards + s.hard_cards = s.total_cards
            /\ s.total_cards = Len(cards)
            /\ s.easy_cards = Cardinality({i \in DOMAIN cards : cards[i].difficulty = EASY})
            /\ s.hard_cards = Cardinality({i \in DOMAIN cards : cards[i].difficulty = HARD})
            /\ s.best_streak = 0 <=> s.cards_with_streaks = 0

\* after reviews [T,F] of an easy card and [T,T,T] of a medium one the best
\* streak is 3 and one card has a streak
C29_Witness ==
    /\ last.op = "statistics"
    /\ Len(cards) = 2
    /\ History(1) = <<TRUE, FALSE>> /\ cards[1].difficulty = EASY
    /\ History(2) = <<TRUE, TRUE, TRUE>> /\ cards[2].difficulty = MEDIUM
    /\ result.statistics.best_streak = 3
    /\ result.statistics.cards_with_streaks = 1
    /\ result.statistics.total_reviews = 5
    /\ result.statistics.easy_cards = 1 /\ result.statistics.hard_cards = 0

\* the cards among flashcards that are of this user
Owned(flashcards, user_id) == SelectSeq(flashcards, LAMBDA card : card.user_id = user_id)

\* the step adds or reviews a card, not one of this user, and takes no time
OfAnother(user_id) ==
    /\ now' = now
    /\ \/ last'.op = "add" /\ cards'[Len(cards')].user_id # user_id
       \/ /\ last'.op = "mark"
          /\ \A i \in DOMAIN cards :
                 cards[i].card_id = result'.card_id => cards[i].user_id # user_id

\* C30: the statistics for a user are those of the cards of that user alone:
\* every figure is what get_statistics gives for a manager holding just these
\* cards, and no addition or review of a card of another user changes any of
\* the figures.
C30_OwnStatistics ==
    [][/\ last'.op = "stats" =>
              result'.statistics =
                  get_statistics(Owned(cards', result'.user_id), lists', now')
       /\ \A user_id \in Users :
              OfAnother(user_id) =>
                  get_stats(cards', lists', now', user_id) =
                      get_stats(cards, lists, now, user_id)
      ]_vars

\* the statistics of user1, who has one card never reviewed, after the card
\* of user2 was reviewed twice
C30_Witness ==
    /\ last.op = "stats"
    /\ result.user_id = "user1"
    /\ Len(cards) = 2
    /\ cards[1].user_id = "user2" /\ History(1) = <<TRUE, TRUE>>
    /\ cards[2].user_id = "user1"
    /\ result.statistics.total_cards = 1
    /\ result.statistics.total_reviews = 0
    /\ result.statistics.best_streak = 0
    /\ result.statistics.easy_cards = 1
    /\ result.statistics.hard_cards = 0
    /\ result.statistics.due_for_review = 1

----------------------------------------------------------------------------
(* The card after a review *)

\* C34: right after a review at time now, whatever the outcome, the
\* difficulty and the state of the card before it, the card is not due at
\* now: neither by its next_review nor by the mandatory two weeks.
C34_NotDueAfterReview ==
    Reviewed =>
        LET c == cards[last.card]
        IN  /\ ~is_due_for_review(c, now, now)
            /\ now < c.next_review
            /\ ~Owed(c, now)

\* a review of a card that was owed its mandatory review, four weeks after
\* its creation and two after the last mandatory one
C34_Witness ==
    /\ Reviewed
    /\ cards[last.card].last_mandatory_review = now
    /\ cards[last.card].review_count >= 2
    /\ now >= cards[last.card].created_at + 28
    /\ ~is_due_for_review(cards[last.card], now, now)

\* C35: every card that was reviewed has its next_review between 1 and 9 days
\* after its last_reviewed, after a review and after a change of difficulty
\* alike; the interval of a successful review is the base interval plus the
\* bonus, which is below the cap of 14 days.
C35_IntervalRange ==
    /\ \A i \in DOMAIN cards :
           cards[i].last_reviewed # NoTime =>
               /\ cards[i].next_review - cards[i].last_reviewed >= 1
               /\ cards[i].next_review - cards[i].last_reviewed <= 9
    /\ (Reviewed /\ last.success) =>
           LET c == cards[last.card]
               uncapped == BaseInterval(c.difficulty) +
                               IF c.success_streak >= 3
                               THEN Min(2, c.success_streak \div 3) ELSE 0
           IN  /\ uncapped < 14
               /\ c.next_review - c.last_reviewed = uncapped

\* the sixth success in a row of an easy card: 9 days
C35_Witness ==
    /\ Reviewed /\ last.success
    /\ cards[last.card].success_streak = 6
    /\ cards[last.card].difficulty = EASY
    /\ cards[last.card].next_review - cards[last.card].last_reviewed = 9

\* C36: the last_mandatory_review of a card, once set, is never unset and
\* never goes back; a new value is at least 14 days after the one before; and
\* it is never later than last_reviewed.
C36_MarkerMonotone ==
    [][\A i \in DOMAIN cards :
           LET before == cards[i].last_mandatory_review
               after == cards'[i].last_mandatory_review
           IN  /\ before # NoTime =>
                      /\ after # NoTime
                      /\ after >= before
                      /\ after # before => after >= before + 14
               /\ after # NoTime =>
                      /\ cards'[i].last_reviewed # NoTime
                      /\ after <= cards'[i].last_reviewed
      ]_vars

\* the marker has moved a second time, two weeks after the first, and a later
\* review has left it there
C36_Witness ==
    /\ Reviewed
    /\ cards[last.card].last_mandatory_review >= cards[last.card].created_at + 28
    /\ cards[last.card].last_reviewed > cards[last.card].last_mandatory_review

\* C37: update_difficulty changes the difficulty of the card and, when the
\* card was reviewed, its next_review, and nothing else: card_id, created_at,
\* user_id, category, last_reviewed, review_count, the history, the streak
\* and last_mandatory_review stay; mark_reviewed never changes card_id,
\* created_at, user_id or category.
C37_Frame ==
    [][/\ last'.op = "update" =>
              LET c == cards[last'.card]
                  c2 == cards'[last'.card]
              IN  /\ c2 = [c EXCEPT !.difficulty = last'.difficulty,
                                    !.next_review = c2.next_review]
                  /\ c.last_reviewed = NoTime => c2.next_review = c.next_review
                  /\ lists' = lists
                  /\ Len(cards') = Len(cards)
       /\ last'.op = "review" =>
              LET c == cards[last'.card]
                  c2 == cards'[last'.card]
              IN  /\ c2.card_id = c.card_id
                  /\ c2.created_at = c.created_at
                  /\ c2.user_id = c.user_id
                  /\ c2.category = c.category
                  /\ c2.recto = c.recto /\ c2.verso = c.verso
      ]_vars

\* a card with a streak of 2 and a history of 3 is made easy: its next_review
\* moves and the rest stays
C37_Witness ==
    /\ last.op = "update"
    /\ last.difficulty = EASY /\ last.before = HARD
    /\ cards[last.card].success_streak = 2
    /\ History(last.card) = <<FALSE, TRUE, TRUE>>
    /\ cards[last.card].review_count = 3
    /\ cards[last.card].next_review = cards[last.card].last_reviewed + 7

----------------------------------------------------------------------------
(* The other cards of the manager *)

\* C38: mark_card_reviewed and update_card_difficulty change the card with
\* the card_id passed and no other: every other card of the manager keeps its
\* fields, its history and whether it is due, and the cards are as many and
\* in the same order as before.
C38_OtherCardsKept ==
    [][last'.op \in {"mark", "difficulty"} =>
           /\ Len(cards') = Len(cards)
           /\ \A i \in DOMAIN cards :
                  /\ cards'[i].card_id = cards[i].card_id
                  /\ cards[i].card_id # result'.card_id =>
                         /\ cards'[i] = cards[i]
                         /\ lists'[cards[i].review_history] = lists[cards[i].review_history]
                         /\ is_due_for_review(cards'[i], now', now') =
                                is_due_for_review(cards[i], now, now)
      ]_vars

\* the second of three cards is reviewed after the third was made easy
C38_Witness ==
    /\ last.op = "mark" /\ result.value
    /\ Len(cards) = 3
    /\ result.card_id = cards[2].card_id
    /\ History(2) = <<FALSE>>
    /\ History(1) = <<>> /\ History(3) = <<>>
    /\ cards[3].difficulty = EASY /\ cards[3].user_id = "user2"
    /\ ~is_due_for_review(cards[2], now, now)
    /\ is_due_for_review(cards[1], now, now)

----------------------------------------------------------------------------
(* A card made from the dictionary of another *)

\* C39: a review of one card leaves the history, the review_count and the
\* streak of every other card as they were, a card made by from_dict from the
\* to_dict of the reviewed card included.
C39_Independent ==
    [][last'.op = "review" =>
           \A j \in DOMAIN cards :
               j # last'.card =>
                   /\ lists'[cards'[j].review_history] = lists[cards[j].review_history]
                   /\ cards'[j].review_count = cards[j].review_count
                   /\ cards'[j].success_streak = cards[j].success_streak
      ]_vars

----------------------------------------------------------------------------
(* The categories *)

\* the list is in ascending order without repetition
Ascending(s) == \A a, b \in DOMAIN s : a < b => Less(s[a], s[b])

----------------------------------------------------------------------------
(* Storage failures *)

\* C31: when load_flashcards fails for any reason (the file cannot be read,
\* is not a JSON document, or holds a record without a required field, with
\* an unknown tier name or with a timestamp that cannot be parsed), the
\* constructor returns and the manager starts with no cards.
C31_ReadFailure ==
    (last.op = "construct" /\ file.exists /\ raised(file) # None) =>
        /\ result.value
        /\ cards = <<>>

\* C32: when save_flashcards fails in mark_card_reviewed, the card in memory
\* is reviewed, the file keeps what it held, and what the call returns is not
\* what it returns when the review was saved.
C32_WriteFailure ==
    [][\A card_id \in 1..MaxStorageCards, success \in BOOLEAN :
           (/\ MarkCardReviewed(card_id, success)
            /\ Find(cards, card_id) # 0
            /\ ~file.writable) =>
               /\ cards' # cards
               /\ lists' # lists
               /\ file' = file
               /\ result' # Call(card_id, None, FALSE, TRUE, <<>>, NoStatistics)]_vars

====
